---- MODULE Spec2Model ----
(***************************************************************************)
(* ConfigTool of NaAPICodex.py: the four operations load_codex,            *)
(* load_claude, write_codex and write_claude over the form fields and the  *)
(* three files ~/.codex/config.toml, ~/.codex/auth.json and                *)
(* ~/.claude/settings.json.                                                *)
(*                                                                         *)
(* A string is a sequence of one-character strings, so that strip, the     *)
(* regular expression of _toml_get, the f-string template of write_codex   *)
(* and json.dump / json.loads are computed character by character.         *)
(***************************************************************************)
EXTENDS Integers, Sequences, FiniteSets, TLC

(***************************************************************************)
(* Default configuration (module constants).                               *)
(***************************************************************************)
CODEX_BASE_URL ==
    <<"h","t","t","p","s",":","/","/","n","a","a","p","i",".","c","c","/","v","1">>
CODEX_MODEL == <<"g","p","t","-","5",".","2">>
CODEX_REASONING == <<"x","h","i","g","h">>
CODEX_VERBOSITY == <<"h","i","g","h">>
CLAUDE_BASE_URL ==
    <<"h","t","t","p","s",":","/","/","n","a","a","p","i",".","c","c">>
CLAUDE_OPUS_MODEL ==
    <<"c","l","a","u","d","e","-","o","p","u","s","-","4","-","6","-","t","h","i","n","k","i","n",
    "g">>
CLAUDE_DISABLE_TRAFFIC == TRUE

(***************************************************************************)
(* Keys of the three files.                                                *)
(***************************************************************************)
K_base_url == <<"b","a","s","e","_","u","r","l">>
K_model == <<"m","o","d","e","l">>
K_model_reasoning_effort ==
    <<"m","o","d","e","l","_","r","e","a","s","o","n","i","n","g","_","e","f","f","o","r","t">>
K_model_verbosity ==
    <<"m","o","d","e","l","_","v","e","r","b","o","s","i","t","y">>
OPENAI_API_KEY == <<"O","P","E","N","A","I","_","A","P","I","_","K","E","Y">>
K_env == <<"e","n","v">>
ANTHROPIC_BASE_URL ==
    <<"A","N","T","H","R","O","P","I","C","_","B","A","S","E","_","U","R","L">>
ANTHROPIC_AUTH_TOKEN ==
    <<"A","N","T","H","R","O","P","I","C","_","A","U","T","H","_","T","O","K","E","N">>
ANTHROPIC_DEFAULT_OPUS_MODEL ==
    <<"A","N","T","H","R","O","P","I","C","_","D","E","F","A","U","L","T","_","O","P","U","S","_",
    "M","O","D","E","L">>
CLAUDE_CODE_DISABLE_NONESSENTIAL_TRAFFIC ==
    <<"C","L","A","U","D","E","_","C","O","D","E","_","D","I","S","A","B","L","E","_","N","O","N",
    "E","S","S","E","N","T","I","A","L","_","T","R","A","F","F","I","C">>
SK_PREFIX == <<"s","k","-">>
ONE == <<"1">>

(***************************************************************************)
(* Python str operations.                                                  *)
(***************************************************************************)
IsSpace(c) == c \in {" ", "\n", "\t"}

RECURSIVE SkipSpace(_, _)
SkipSpace(text, i) ==
    IF i <= Len(text) /\ IsSpace(text[i]) THEN SkipSpace(text, i + 1) ELSE i

RECURSIVE SkipSpaceBack(_, _)
SkipSpaceBack(text, i) ==
    IF i >= 1 /\ IsSpace(text[i]) THEN SkipSpaceBack(text, i - 1) ELSE i

strip_trailing_only(s) == SubSeq(s, 1, SkipSpaceBack(s, Len(s)))

strip(s) == SubSeq(s, SkipSpace(s, 1), SkipSpaceBack(s, Len(s)))

MatchLit(text, i, lit) ==
    /\ i + Len(lit) - 1 <= Len(text)
    /\ \A k \in 1..Len(lit) : text[i + k - 1] = lit[k]

startswith_by_length(s, prefix) == Len(s) >= Len(prefix)

startswith(s, prefix) == MatchLit(s, 1, prefix)

RECURSIVE Join(_)
Join(parts) == IF parts = << >> THEN << >> ELSE Head(parts) \o Join(Tail(parts))

(***************************************************************************)
(* _toml_get: re.search with re.MULTILINE for a line start, white space,   *)
(* the key, white space, an equals sign, white space, a double-quoted      *)
(* group without double quote, white space and a line end.  The result is  *)
(* [found, val]; found = FALSE is None.                                    *)
(***************************************************************************)
None == [found |-> FALSE, val |-> << >>]

\* the index of the first double quote at or after i, 0 if there is none
FindQuote(text, i) ==
    LET quotes == {j \in i..Len(text) : text[j] = "\""}
    IN  IF quotes = {} THEN 0 ELSE CHOOSE j \in quotes : \A k \in quotes : j <= k

\* trailing part of the pattern: after optional white space, the end of the text or a newline
RECURSIVE TrailOK(_, _)
TrailOK(text, i) ==
    \/ i > Len(text)
    \/ text[i] = "\n"
    \/ IsSpace(text[i]) /\ TrailOK(text, i + 1)

LineStart(text, i) == i = 1 \/ text[i - 1] = "\n"

MatchAt(text, key, i) ==
    LET j1 == SkipSpace(text, i)
        j2 == SkipSpace(text, j1 + Len(key))
        j3 == SkipSpace(text, j2 + 1)
        q  == FindQuote(text, j3 + 1)
    IN  IF /\ MatchLit(text, j1, key)
           /\ j2 <= Len(text) /\ text[j2] = "="
           /\ j3 <= Len(text) /\ text[j3] = "\""
           /\ q # 0
           /\ TrailOK(text, q + 1)
        THEN [found |-> TRUE, val |-> SubSeq(text, j3 + 1, q - 1)]
        ELSE None

\* re.search: the match that starts leftmost
Search(text, key) ==
    LET starts == {i \in 1..Len(text) : LineStart(text, i) /\ MatchAt(text, key, i).found}
    IN  IF starts = {} THEN None
        ELSE MatchAt(text, key, CHOOSE i \in starts : \A k \in starts : i <= k)

_toml_get(text, key) == Search(text, key)

(***************************************************************************)
(* The f-string template of write_codex.                                   *)
(***************************************************************************)
T_head ==
    <<"m","o","d","e","l","_","p","r","o","v","i","d","e","r"," ","="," ","\"","n","a","a","p","i",
    "\"","\n","m","o","d","e","l"," ","="," ","\"">>
T_reasoning ==
    <<"\"","\n","m","o","d","e","l","_","r","e","a","s","o","n","i","n","g","_","e","f","f","o","r",
    "t"," ","="," ","\"">>
T_verbosity ==
    <<"\"","\n","n","e","t","w","o","r","k","_","a","c","c","e","s","s"," ","="," ","\"","e","n",
    "a","b","l","e","d","\"","\n","d","i","s","a","b","l","e","_","r","e","s","p","o","n","s",
    "e","_","s","t","o","r","a","g","e"," ","="," ","t","r","u","e","\n","w","i","n","d","o",
    "w","s","_","w","s","l","_","s","e","t","u","p","_","a","c","k","n","o","w","l","e","d","g",
    "e","d"," ","="," ","t","r","u","e","\n","m","o","d","e","l","_","v","e","r","b","o","s",
    "i","t","y"," ","="," ","\"">>
T_provider ==
    <<"\"","\n","\n","[","m","o","d","e","l","_","p","r","o","v","i","d","e","r","s",".","n","a",
    "a","p","i","]","\n","n","a","m","e"," ","="," ","\"","n","a","a","p","i","\"","\n","b","a",
    "s","e","_","u","r","l"," ","="," ","\"">>
T_tail ==
    <<"\"","\n","w","i","r","e","_","a","p","i"," ","="," ","\"","r","e","s","p","o","n","s","e",
    "s","\"","\n","r","e","q","u","i","r","e","s","_","o","p","e","n","a","i","_","a","u","t",
    "h"," ","="," ","t","r","u","e","\n">>

config_content_swapped(model, reasoning, verbosity, base_url) ==
    Join(<<T_head, model, T_reasoning, verbosity, T_verbosity, reasoning,
           T_provider, base_url, T_tail>>)

config_content(model, reasoning, verbosity, base_url) ==
    Join(<<T_head, model, T_reasoning, reasoning, T_verbosity, verbosity,
           T_provider, base_url, T_tail>>)

(***************************************************************************)
(* JSON values: [t, s, n, items] with t one of str, num, lit, obj; items   *)
(* is the sequence of the members [k, v] of an object in file order.       *)
(***************************************************************************)
JStr(s) == [t |-> "str", s |-> s, n |-> 0, items |-> << >>]
JNum(n) == [t |-> "num", s |-> << >>, n |-> n, items |-> << >>]
JLit(name) == [t |-> "lit", s |-> name, n |-> 0, items |-> << >>]
JObj(items) == [t |-> "obj", s |-> << >>, n |-> 0, items |-> items]
JNull == JLit(<<"n","u","l","l">>)
JTrue == JLit(<<"t","r","u","e">>)
JFalse == JLit(<<"f","a","l","s","e">>)

(***************************************************************************)
(* json.dump(data, f, ensure_ascii=False, indent=2) for the dictionaries   *)
(* of strings that write_codex and write_claude build.                     *)
(***************************************************************************)
EscapeChar(c) ==
    CASE c = "\"" -> <<"\\", "\"">>
      [] c = "\\" -> <<"\\", "\\">>
      [] c = "\n" -> <<"\\", "n">>
      [] c = "\t" -> <<"\\", "t">>
      [] OTHER -> <<c>>

\* the escaped text; the recursion halves the text
RECURSIVE Escape(_)
Escape(s) ==
    IF s = << >> THEN << >>
    ELSE IF Len(s) = 1 THEN EscapeChar(s[1])
    ELSE Escape(SubSeq(s, 1, Len(s) \div 2)) \o Escape(SubSeq(s, Len(s) \div 2 + 1, Len(s)))

json_string(s) == <<"\"">> \o Escape(s) \o <<"\"">>

RECURSIVE Indent(_)
Indent(level) == IF level = 0 THEN << >> ELSE <<" ", " ">> \o Indent(level - 1)

RECURSIVE json_dumps(_, _)
RECURSIVE DumpItems(_, _)
DumpItems(items, level) ==
    IF items = << >> THEN << >>
    ELSE Join(<<Indent(level), json_string(Head(items).k), <<":", " ">>,
                json_dumps(Head(items).v, level),
                IF Len(items) > 1 THEN <<",", "\n">> ELSE <<"\n">>,
                DumpItems(Tail(items), level)>>)

json_dumps(v, level) ==
    IF v.t = "str" THEN json_string(v.s)
    ELSE IF v.items = << >> THEN <<"{", "}">>
    ELSE Join(<<(<<"{", "\n">>), DumpItems(v.items, level + 1), Indent(level), <<"}">> >>)

(***************************************************************************)
(* json.loads for objects, strings, integers and the three literals.  The  *)
(* result is [ok, v, i]: ok = FALSE is a JSONDecodeError, i the index      *)
(* after the value.                                                        *)
(***************************************************************************)
JFail == [ok |-> FALSE, v |-> JNull, i |-> 0]

IsJsonSpace(c) == c \in {" ", "\n", "\t", "\r"}

RECURSIVE SkipJsonSpace(_, _)
SkipJsonSpace(text, i) ==
    IF i <= Len(text) /\ IsJsonSpace(text[i]) THEN SkipJsonSpace(text, i + 1) ELSE i

Unescape(c) ==
    CASE c = "n" -> "\n"
      [] c = "t" -> "\t"
      [] c = "r" -> "\r"
      [] OTHER -> c

\* the number of backslashes that directly precede text[j], from index i on
RECURSIVE BackslashRun(_, _, _)
BackslashRun(text, i, j) ==
    IF j > i /\ text[j - 1] = "\\" THEN 1 + BackslashRun(text, i, j - 1) ELSE 0

\* text[j] is taken literally: it is not the character after an escaping backslash
Unescaped(text, i, j) == BackslashRun(text, i, j) % 2 = 0

\* text[i] is the first character after the opening double quote; the string
\* ends at the first double quote that is not escaped
ParseString(text, i) ==
    LET closing == {j \in i..Len(text) : text[j] = "\"" /\ Unescaped(text, i, j)}
        end == CHOOSE j \in closing : \A k \in closing : j <= k
        escapes == {j \in i..(end - 1) : text[j] = "\\" /\ Unescaped(text, i, j)}
        kept == SelectSeq([j \in 1..(end - i) |-> i + j - 1], LAMBDA j : j \notin escapes)
    IN  IF closing = {} THEN [ok |-> FALSE, s |-> << >>, i |-> 0]
        ELSE IF \E j \in i..(end - 1) : text[j] \in {"\n", "\t", "\r"}
        THEN [ok |-> FALSE, s |-> << >>, i |-> 0]
        ELSE IF \E j \in escapes : text[j + 1] \notin {"\"", "\\", "/", "n", "t", "r"}
        THEN [ok |-> FALSE, s |-> << >>, i |-> 0]
        ELSE [ok |-> TRUE,
              s |-> [k \in 1..Len(kept) |->
                        IF (kept[k] - 1) \in escapes THEN Unescape(text[kept[k]])
                        ELSE text[kept[k]]],
              i |-> end + 1]

Digits == <<"0", "1", "2", "3", "4", "5", "6", "7", "8", "9">>
IsDigit(c) == \E d \in 1..10 : Digits[d] = c
DigitVal(c) == (CHOOSE d \in 1..10 : Digits[d] = c) - 1

RECURSIVE ParseDigits(_, _, _)
ParseDigits(text, i, acc) ==
    IF i <= Len(text) /\ IsDigit(text[i])
    THEN ParseDigits(text, i + 1, 10 * acc + DigitVal(text[i]))
    ELSE [n |-> acc, i |-> i]

\* -?(0|[1-9][0-9]*) with text[i] the first digit
ParseNumber(text, i, sign) ==
    IF i > Len(text) \/ ~IsDigit(text[i]) THEN JFail
    ELSE IF text[i] = "0" THEN [ok |-> TRUE, v |-> JNum(0), i |-> i + 1]
    ELSE LET r == ParseDigits(text, i, 0)
         IN  [ok |-> TRUE, v |-> JNum(sign * r.n), i |-> r.i]

RECURSIVE ParseValue(_, _)
RECURSIVE ParseMembers(_, _, _)
\* text[i] is the double quote that opens the next key
ParseMembers(text, i, acc) ==
    IF i > Len(text) \/ text[i] # "\"" THEN JFail
    ELSE LET key == ParseString(text, i + 1)
             c   == SkipJsonSpace(text, key.i)
             val == ParseValue(text, SkipJsonSpace(text, c + 1))
             e   == SkipJsonSpace(text, val.i)
             all == Append(acc, [k |-> key.s, v |-> val.v])
         IN  IF ~key.ok \/ c > Len(text) \/ text[c] # ":" THEN JFail
             ELSE IF ~val.ok \/ e > Len(text) THEN JFail
             ELSE IF text[e] = "}" THEN [ok |-> TRUE, v |-> JObj(all), i |-> e + 1]
             ELSE IF text[e] = "," THEN ParseMembers(text, SkipJsonSpace(text, e + 1), all)
             ELSE JFail

ParseValue(text, i) ==
    IF i > Len(text) THEN JFail
    ELSE IF text[i] = "\""
         THEN LET r == ParseString(text, i + 1)
              IN  IF r.ok THEN [ok |-> TRUE, v |-> JStr(r.s), i |-> r.i] ELSE JFail
    ELSE IF text[i] = "{"
         THEN LET j == SkipJsonSpace(text, i + 1)
              IN  IF j <= Len(text) /\ text[j] = "}"
                  THEN [ok |-> TRUE, v |-> JObj(<< >>), i |-> j + 1]
                  ELSE ParseMembers(text, j, << >>)
    ELSE IF text[i] = "-" THEN ParseNumber(text, i + 1, -1)
    ELSE IF IsDigit(text[i]) THEN ParseNumber(text, i, 1)
    ELSE IF MatchLit(text, i, JTrue.s) THEN [ok |-> TRUE, v |-> JTrue, i |-> i + 4]
    ELSE IF MatchLit(text, i, JFalse.s) THEN [ok |-> TRUE, v |-> JFalse, i |-> i + 5]
    ELSE IF MatchLit(text, i, JNull.s) THEN [ok |-> TRUE, v |-> JNull, i |-> i + 4]
    ELSE JFail

\* the value r is the whole document: only white space follows it
WholeText(text, r) ==
    IF r.ok /\ SkipJsonSpace(text, r.i) > Len(text) THEN r ELSE JFail

json_loads(text) == WholeText(text, ParseValue(text, SkipJsonSpace(text, 1)))

(***************************************************************************)
(* Python operations on the decoded values: dict.get, truth value, str().  *)
(***************************************************************************)
Has(obj, key) == \E m \in 1..Len(obj.items) : obj.items[m].k = key

\* a repeated key keeps its last value; an absent key gives None (null)
get(obj, key) ==
    IF Has(obj, key)
    THEN LET m == CHOOSE x \in 1..Len(obj.items) :
                      /\ obj.items[x].k = key
                      /\ \A y \in (x + 1)..Len(obj.items) : obj.items[y].k # key
         IN  obj.items[m].v
    ELSE JNull

Truthy(v) ==
    CASE v.t = "str" -> v.s # << >>
      [] v.t = "num" -> v.n # 0
      [] v.t = "obj" -> v.items # << >>
      [] OTHER -> v = JTrue

RECURSIVE NatStr(_)
NatStr(n) == IF n < 10 THEN <<Digits[n + 1]>> ELSE Append(NatStr(n \div 10), Digits[(n % 10) + 1])

\* str(v); the repr of a dictionary starts with a brace and is never "1"
str(v) ==
    CASE v.t = "str" -> v.s
      [] v.t = "num" -> IF v.n < 0 THEN <<"-">> \o NatStr(0 - v.n) ELSE NatStr(v.n)
      [] v.t = "obj" -> <<"{", "}">>
      [] OTHER -> IF v = JTrue THEN <<"T","r","u","e">>
                  ELSE IF v = JFalse THEN <<"F","a","l","s","e">>
                  ELSE <<"N","o","n","e">>

(***************************************************************************)
(* The paths set in __init__, relative to the home directory.              *)
(***************************************************************************)
CODEX_DIR == ".codex"
CODEX_CONFIG == "config.toml"
CODEX_AUTH == "auth.json"
CLAUDE_DIR == ".claude"
CLAUDE_CONFIG_in_codex_dir == "auth.json"
CLAUDE_CONFIG == "settings.json"

\* path.parent
parent(path) == IF path \in {"config.toml", "auth.json"} THEN ".codex" ELSE ".claude"

(***************************************************************************)
(* State.  The nine form variables and the status line of ConfigTool, the  *)
(* three files and their two directories, and what the last handler did:   *)
(* trace is the sequence of its file system calls, dialogs and toasts in   *)
(* program order, last is the handler and the return point it reached,     *)
(* prev is last of the step before.                                        *)
(***************************************************************************)
VARIABLES codex_api_key_var, codex_base_url_var, codex_model_var,
          codex_reasoning_var, codex_verbosity_var,
          claude_token_var, claude_base_url_var, claude_opus_var,
          claude_disable_traffic_var, status_var,
          codex_dir, codex_config, codex_auth, claude_dir, claude_config,
          trace, last, prev, edits

codex_vars == <<codex_api_key_var, codex_base_url_var, codex_model_var,
                codex_reasoning_var, codex_verbosity_var>>
claude_vars == <<claude_token_var, claude_base_url_var, claude_opus_var,
                 claude_disable_traffic_var>>
codex_files == <<codex_dir, codex_config, codex_auth>>
claude_files == <<claude_dir, claude_config>>
vars == <<codex_vars, claude_vars, status_var, codex_files, claude_files,
          trace, last, prev, edits>>

(***************************************************************************)
(* Bounds: the number of edits of form fields in one session, and the      *)
(* values typed or pasted into the fields and found on disk at start.      *)
(***************************************************************************)
MaxEdits == 1

KEY_PLACEHOLDER_PADDED == <<"s","k","-"," ">>
KEY_VALID_PADDED == <<" ","s","k","-","a">>
KEY_NO_PREFIX == <<"k","\"","\\">>
TEXT_BLANK == <<" ">>
TEXT_PADDED == <<" ","m"," ">>
TEXT_INJECT ==
    <<"m","\"","\n","b","a","s","e","_","u","r","l"," ","="," ","\"","z">>
TOKEN_PADDED == <<" ","t","\\"," ">>
TEXT_URL == <<"u">>

ApiKeyInputs == {KEY_PLACEHOLDER_PADDED, KEY_VALID_PADDED, KEY_NO_PREFIX}
ModelInputs == {TEXT_BLANK, TEXT_PADDED, TEXT_INJECT}
ReasoningInputs == {TEXT_BLANK, TEXT_PADDED}
VerbosityInputs == {TEXT_BLANK}
TokenInputs == {TEXT_BLANK, TOKEN_PADDED}
ClaudeUrlInputs == {TEXT_BLANK, TEXT_URL}
OpusInputs == {TEXT_BLANK, TEXT_PADDED}


\* a config.toml written by hand: an empty value, an unquoted value, loose spacing
CONFIG_ON_DISK ==
    <<" "," ","m","o","d","e","l","=","\"","m","1","\""," "," ","\n","m","o","d","e","l","_","v",
    "e","r","b","o","s","i","t","y"," ","="," ","\"","\"","\n","m","o","d","e","l","_","r","e",
    "a","s","o","n","i","n","g","_","e","f","f","o","r","t"," ","="," ","h","i","g","h","\n",
    "\n","b","a","s","e","_","u","r","l","\n"," ","="," "," ","\"","u","1","\"","\n">>
AUTH_ON_DISK ==
    <<"{","\"","O","P","E","N","A","I","_","A","P","I","_","K","E","Y","\"",":"," ","\""," ","s",
    "k","-","d","\\","n","\"","}">>
AUTH_MALFORMED ==
    <<"{","\"","O","P","E","N","A","I","_","A","P","I","_","K","E","Y","\"",":"," ">>
SETTINGS_ZERO ==
    <<"{","\"","e","n","v","\"",":"," ","{","\"","A","N","T","H","R","O","P","I","C","_","B","A",
    "S","E","_","U","R","L","\"",":"," ","\""," ","u","2"," ","\"",","," ","\"","A","N","T","H",
    "R","O","P","I","C","_","A","U","T","H","_","T","O","K","E","N","\"",":"," ","\"","\"",",",
    " ","\"","C","L","A","U","D","E","_","C","O","D","E","_","D","I","S","A","B","L","E","_",
    "N","O","N","E","S","S","E","N","T","I","A","L","_","T","R","A","F","F","I","C","\"",":",
    " ","\"","0","\"","}","}">>
SETTINGS_ONE_PADDED ==
    <<"{","\"","e","n","v","\"",":"," ","{","\"","C","L","A","U","D","E","_","C","O","D","E","_",
    "D","I","S","A","B","L","E","_","N","O","N","E","S","S","E","N","T","I","A","L","_","T","R",
    "A","F","F","I","C","\"",":"," ","\""," ","1","\\","n","\"",","," ","\"","A","N","T","H",
    "R","O","P","I","C","_","A","U","T","H","_","T","O","K","E","N","\"",":"," ","\"","t","2",
    "\"","}","}">>
SETTINGS_TRUE ==
    <<"{","\"","e","n","v","\"",":"," ","{","\"","C","L","A","U","D","E","_","C","O","D","E","_",
    "D","I","S","A","B","L","E","_","N","O","N","E","S","S","E","N","T","I","A","L","_","T","R",
    "A","F","F","I","C","\"",":"," ","\"","t","r","u","e","\"","}","}">>
SETTINGS_NUMBER ==
    <<"{","\"","e","n","v","\"",":"," ","{","\"","C","L","A","U","D","E","_","C","O","D","E","_",
    "D","I","S","A","B","L","E","_","N","O","N","E","S","S","E","N","T","I","A","L","_","T","R",
    "A","F","F","I","C","\"",":"," ","1","}","}">>
SETTINGS_NO_FLAG ==
    <<"{","\"","e","n","v","\"",":"," ","{","\"","A","N","T","H","R","O","P","I","C","_","D","E",
    "F","A","U","L","T","_","O","P","U","S","_","M","O","D","E","L","\"",":"," ","\"","o","2",
    "\"","}",","," ","\"","m","o","d","e","l","\"",":"," ","\"","x","\"","}">>
SETTINGS_NULL ==
    <<"{","\"","e","n","v","\"",":"," ","{","\"","C","L","A","U","D","E","_","C","O","D","E","_",
    "D","I","S","A","B","L","E","_","N","O","N","E","S","S","E","N","T","I","A","L","_","T","R",
    "A","F","F","I","C","\"",":"," ","n","u","l","l","}","}">>
SETTINGS_BAD_TYPE ==
    <<"{","\"","e","n","v","\"",":"," ","{","\"","A","N","T","H","R","O","P","I","C","_","B","A",
    "S","E","_","U","R","L","\"",":"," ","5",","," ","\"","C","L","A","U","D","E","_","C","O",
    "D","E","_","D","I","S","A","B","L","E","_","N","O","N","E","S","S","E","N","T","I","A","L",
    "_","T","R","A","F","F","I","C","\"",":"," ","\"","0","\"","}","}">>
SETTINGS_MALFORMED == <<"{","\"","e","n","v","\"",":"," ","{">>

NoFile == [exists |-> FALSE, text |-> << >>]
FileOf(text) == [exists |-> TRUE, text |-> text]

ConfigOnDisk == {NoFile, FileOf(CONFIG_ON_DISK)}
AuthOnDisk == {NoFile, FileOf(AUTH_ON_DISK), FileOf(AUTH_MALFORMED)}
SettingsOnDisk ==
    {NoFile} \cup {FileOf(t) : t \in {SETTINGS_ZERO, SETTINGS_ONE_PADDED, SETTINGS_TRUE,
                                      SETTINGS_NUMBER, SETTINGS_NO_FLAG, SETTINGS_NULL,
                                      SETTINGS_BAD_TYPE, SETTINGS_MALFORMED}}

(***************************************************************************)
(* Events of a handler.                                                    *)
(***************************************************************************)

FsEvent(call, path) == [ev |-> call, what |-> path, files |-> << >>, answer |-> "-"]
Toast(message, toast_type) == [ev |-> "toast", what |-> message, files |-> << >>, answer |-> toast_type]
AskYesNo(title, files, answer) ==
    [ev |-> "askyesno", what |-> title, files |-> files, answer |-> IF answer THEN "yes" ELSE "no"]

Called(call, path) == \E n \in 1..Len(trace) : trace[n] = FsEvent(call, path)
Toasts == SelectSeq(trace, LAMBDA e : e.ev = "toast")
Prompts == SelectSeq(trace, LAMBDA e : e.ev = "askyesno")

Done(op, exit) == [op |-> op, exit |-> exit]

(***************************************************************************)
(* __init__ and _init_vars: the fields hold the defaults; the home         *)
(* directory holds whatever earlier sessions and other tools left there.   *)
(***************************************************************************)
InitWith(configs, auths, settings) ==
    /\ codex_api_key_var = << >>
    /\ codex_base_url_var = CODEX_BASE_URL
    /\ codex_model_var = CODEX_MODEL
    /\ codex_reasoning_var = CODEX_REASONING
    /\ codex_verbosity_var = CODEX_VERBOSITY
    /\ claude_token_var = << >>
    /\ claude_base_url_var = CLAUDE_BASE_URL
    /\ claude_opus_var = CLAUDE_OPUS_MODEL
    /\ claude_disable_traffic_var = CLAUDE_DISABLE_TRAFFIC
    /\ status_var = "ready"
    /\ codex_config \in configs
    /\ codex_auth \in auths
    /\ codex_dir = (codex_config.exists \/ codex_auth.exists)
    /\ claude_config \in settings
    /\ claude_dir = claude_config.exists
    /\ trace = << >>
    /\ last = Done("init", "-")
    /\ prev = Done("init", "-")
    /\ edits = 0

Init ==
    InitWith({NoFile}, {FileOf(AUTH_ON_DISK)},
             {FileOf(SETTINGS_ONE_PADDED)})

InitCodex == InitWith(ConfigOnDisk, AuthOnDisk, {NoFile})

InitClaude == InitWith({NoFile}, {NoFile}, SettingsOnDisk)

(***************************************************************************)
(* The user types or pastes into an entry, or toggles the check box.       *)
(* codex_base_url_var is bound to no widget.                               *)
(***************************************************************************)
Edited ==
    /\ edits < MaxEdits
    /\ edits' = edits + 1
    /\ trace' = << >>
    /\ prev' = last
    /\ last' = Done("edit", "-")
    /\ UNCHANGED <<status_var, codex_files, claude_files>>

edit_codex_api_key(values) ==
    /\ Edited
    /\ \E v \in values : codex_api_key_var' = v
    /\ UNCHANGED <<codex_base_url_var, codex_model_var, codex_reasoning_var,
                   codex_verbosity_var, claude_vars>>

edit_codex_model(values) ==
    /\ Edited
    /\ \E v \in values : codex_model_var' = v
    /\ UNCHANGED <<codex_api_key_var, codex_base_url_var, codex_reasoning_var,
                   codex_verbosity_var, claude_vars>>

edit_codex_reasoning(values) ==
    /\ Edited
    /\ \E v \in values : codex_reasoning_var' = v
    /\ UNCHANGED <<codex_api_key_var, codex_base_url_var, codex_model_var,
                   codex_verbosity_var, claude_vars>>

edit_codex_verbosity(values) ==
    /\ Edited
    /\ \E v \in values : codex_verbosity_var' = v
    /\ UNCHANGED <<codex_api_key_var, codex_base_url_var, codex_model_var,
                   codex_reasoning_var, claude_vars>>

edit_claude_token(values) ==
    /\ Edited
    /\ \E v \in values : claude_token_var' = v
    /\ UNCHANGED <<codex_vars, claude_base_url_var, claude_opus_var,
                   claude_disable_traffic_var>>

edit_claude_base_url(values) ==
    /\ Edited
    /\ \E v \in values : claude_base_url_var' = v
    /\ UNCHANGED <<codex_vars, claude_token_var, claude_opus_var,
                   claude_disable_traffic_var>>

edit_claude_opus(values) ==
    /\ Edited
    /\ \E v \in values : claude_opus_var' = v
    /\ UNCHANGED <<codex_vars, claude_token_var, claude_base_url_var,
                   claude_disable_traffic_var>>

toggle_claude_disable_traffic ==
    /\ Edited
    /\ claude_disable_traffic_var' = ~claude_disable_traffic_var
    /\ UNCHANGED <<codex_vars, claude_token_var, claude_base_url_var, claude_opus_var>>

(***************************************************************************)
(* The file system: the file at a path, and the state after a handler has  *)
(* saved files.  saves is the sequence of the results of _save_text and    *)
(* _save_json in program order.                                            *)
(***************************************************************************)
File(path) ==
    CASE path = "config.toml" -> codex_config
      [] path = "auth.json" -> codex_auth
      [] path = "settings.json" -> claude_config

FileAfter(path, saves) ==
    LET mine == SelectSeq(saves, LAMBDA w : w.path = path)
    IN  IF mine = << >> THEN File(path) ELSE mine[Len(mine)].file

MadeDir(dir, saves) == \E n \in 1..Len(saves) : parent(saves[n].path) = dir

FsApply_transactional(saves) ==
    IF \E n \in 1..Len(saves) : saves[n].raised # "none"
    THEN UNCHANGED <<codex_files, claude_files>>
    ELSE /\ codex_config' = FileAfter("config.toml", saves)
         /\ codex_auth' = FileAfter("auth.json", saves)
         /\ claude_config' = FileAfter("settings.json", saves)
         /\ codex_dir' = (codex_dir \/ MadeDir(".codex", saves))
         /\ claude_dir' = (claude_dir \/ MadeDir(".claude", saves))

FsApply(saves) ==
    /\ codex_config' = FileAfter("config.toml", saves)
    /\ codex_auth' = FileAfter("auth.json", saves)
    /\ claude_config' = FileAfter("settings.json", saves)
    /\ codex_dir' = (codex_dir \/ MadeDir(".codex", saves))
    /\ claude_dir' = (claude_dir \/ MadeDir(".claude", saves))

(***************************************************************************)
(* load_codex.  unreadable names the file whose read_text raises, if any.  *)
(***************************************************************************)
set_if_found_even_empty(m, current) == IF m.found THEN m.val ELSE current

\* if value: var.set(value)
set_if_found(m, current) == IF m.found /\ m.val # << >> THEN m.val ELSE current

\* (value or "").strip(); raised is the AttributeError of a true value without strip
or_empty_strip(v) ==
    IF ~Truthy(v) THEN [raised |-> FALSE, val |-> << >>]
    ELSE IF v.t = "str" THEN [raised |-> FALSE, val |-> strip(v.s)]
    ELSE [raised |-> TRUE, val |-> << >>]

\* data.get(key) on the result of json.loads: raised for invalid JSON and for a non-dict
get_loaded(data, key) ==
    IF data.ok /\ data.v.t = "obj"
    THEN [raised |-> FALSE, val |-> get(data.v, key)]
    ELSE [raised |-> TRUE, val |-> JNull]

\* json.loads(text) followed by data.get(key)
loads_get(text, key) == get_loaded(json_loads(text), key)

api_key_of_lenient(entry) ==
    IF entry.raised THEN [raised |-> FALSE, val |-> << >>] ELSE or_empty_strip(entry.val)

\* (auth.get("OPENAI_API_KEY") or "").strip()
api_key_of(entry) ==
    IF entry.raised THEN [raised |-> TRUE, val |-> << >>] ELSE or_empty_strip(entry.val)

read_api_key(text) == api_key_of(loads_get(text, OPENAI_API_KEY))

\* what a press of the button can meet: only a file that is read can be unreadable
load_codex_meets(unreadable) ==
    /\ unreadable = CODEX_CONFIG => File(CODEX_CONFIG).exists
    /\ unreadable = CODEX_AUTH => File(CODEX_AUTH).exists

\* key is what the handler gets from auth.json if it reads it
load_codex_with(unreadable, key) ==
    LET config_read == File(CODEX_CONFIG).exists
        config_raised == config_read /\ unreadable = CODEX_CONFIG
        config_loaded == config_read /\ ~config_raised
        text == File(CODEX_CONFIG).text
        auth_read == ~config_raised /\ File(CODEX_AUTH).exists
        auth_raised == auth_read /\ (unreadable = CODEX_AUTH \/ key.raised)
        auth_loaded == auth_read /\ ~auth_raised
        raised == config_raised \/ auth_raised
    IN  /\ load_codex_meets(unreadable)
        /\ codex_base_url_var' =
              IF config_loaded THEN set_if_found(_toml_get(text, K_base_url), codex_base_url_var)
              ELSE codex_base_url_var
        /\ codex_model_var' =
              IF config_loaded THEN set_if_found(_toml_get(text, K_model), codex_model_var)
              ELSE codex_model_var
        /\ codex_reasoning_var' =
              IF config_loaded
              THEN set_if_found(_toml_get(text, K_model_reasoning_effort), codex_reasoning_var)
              ELSE codex_reasoning_var
        /\ codex_verbosity_var' =
              IF config_loaded
              THEN set_if_found(_toml_get(text, K_model_verbosity), codex_verbosity_var)
              ELSE codex_verbosity_var
        /\ codex_api_key_var' =
              IF auth_loaded /\ key.val # << >> THEN key.val ELSE codex_api_key_var
        /\ status_var' = IF raised THEN "codex_load_failed" ELSE "codex_loaded"
        /\ trace' = Join(<<
              <<FsEvent("exists", CODEX_CONFIG)>>,
              IF config_read THEN <<FsEvent("read", CODEX_CONFIG)>> ELSE << >>,
              IF config_raised THEN << >> ELSE <<FsEvent("exists", CODEX_AUTH)>>,
              IF auth_read THEN <<FsEvent("read", CODEX_AUTH)>> ELSE << >>,
              IF raised THEN <<Toast("load_failed", "error")>>
              ELSE <<Toast("codex_loaded", "success")>> >>)
        /\ prev' = last
        /\ last' = Done("load_codex", IF raised THEN "error" ELSE "success")
        /\ UNCHANGED <<claude_vars, codex_files, claude_files, edits>>

load_codex(unreadable) == load_codex_with(unreadable, read_api_key(File(CODEX_AUTH).text))

(***************************************************************************)
(* load_claude.  unreadable: read_text raises.                             *)
(***************************************************************************)
disable_traffic_value_unstripped(v) == str(v) = ONE

\* str(disable_traffic).strip() == "1"
disable_traffic_value(v) == strip(str(v)) = ONE

\* the three strings and the flag of load_claude, after the strips
env_values(base_url, token, opus, disable_traffic) ==
    IF base_url.raised \/ token.raised \/ opus.raised THEN [raised |-> TRUE]
    ELSE [raised |-> FALSE, base_url |-> base_url.val, token |-> token.val,
          opus |-> opus.val, disable_traffic |-> disable_traffic]

\* the four env.get(...) of load_claude; a true env that is no dict has no get
env_entries(env) ==
    IF env.t # "obj" THEN [raised |-> TRUE]
    ELSE env_values(or_empty_strip(get(env, ANTHROPIC_BASE_URL)),
                    or_empty_strip(get(env, ANTHROPIC_AUTH_TOKEN)),
                    or_empty_strip(get(env, ANTHROPIC_DEFAULT_OPUS_MODEL)),
                    get(env, CLAUDE_CODE_DISABLE_NONESSENTIAL_TRAFFIC))

\* data.get("env") or {}
env_or_empty(top) ==
    IF top.raised THEN [raised |-> TRUE]
    ELSE env_entries(IF Truthy(top.val) THEN top.val ELSE JObj(<< >>))

read_env(text) == env_or_empty(loads_get(text, K_env))

claude_load_failed == [toast |-> Toast("load_failed", "error"), exit |-> "error"]

settings_not_found_as_error == [toast |-> Toast("load_failed", "error"), exit |-> "error"]

\* the two ways load_claude ends without loading
settings_not_found == [toast |-> Toast("settings_not_found", "warning"), exit |-> "not_found"]

\* what a press of the button can meet: only a file that is read can be unreadable
load_claude_meets(unreadable) == unreadable => File(CLAUDE_CONFIG).exists

\* env is what the handler gets from settings.json if it reads it
load_claude_with(unreadable, env) ==
    LET raised == unreadable \/ env.raised
    IN  /\ load_claude_meets(unreadable)
        /\ prev' = last
        /\ UNCHANGED <<codex_vars, codex_files, claude_files, edits>>
        /\ IF ~File(CLAUDE_CONFIG).exists
           THEN /\ trace' = <<FsEvent("exists", CLAUDE_CONFIG), settings_not_found.toast>>
                /\ last' = Done("load_claude", settings_not_found.exit)
                /\ UNCHANGED <<status_var, claude_vars>>
           ELSE IF raised
           THEN /\ trace' = <<FsEvent("exists", CLAUDE_CONFIG), FsEvent("read", CLAUDE_CONFIG),
                              claude_load_failed.toast>>
                /\ last' = Done("load_claude", claude_load_failed.exit)
                /\ status_var' = "claude_load_failed"
                /\ UNCHANGED claude_vars
           ELSE /\ claude_base_url_var' =
                      IF env.base_url # << >> THEN env.base_url ELSE claude_base_url_var
                /\ claude_token_var' =
                      IF env.token # << >> THEN env.token ELSE claude_token_var
                /\ claude_opus_var' =
                      IF env.opus # << >> THEN env.opus ELSE claude_opus_var
                /\ claude_disable_traffic_var' =
                      IF env.disable_traffic # JNull
                      THEN disable_traffic_value(env.disable_traffic)
                      ELSE claude_disable_traffic_var
                /\ trace' = <<FsEvent("exists", CLAUDE_CONFIG), FsEvent("read", CLAUDE_CONFIG),
                              Toast("claude_loaded", "success")>>
                /\ last' = Done("load_claude", "success")
                /\ status_var' = "claude_loaded"

load_claude(unreadable) == load_claude_with(unreadable, read_env(File(CLAUDE_CONFIG).text))

(***************************************************************************)
(* _confirm_overwrite, _save_text and _save_json.                          *)
(***************************************************************************)
existing_files_all(files) == files

\* existing = [str(f) for f in files if f.exists()]
existing_files(files) == SelectSeq(files, LAMBDA f : File(f).exists)

_confirm_overwrite_ignores_answer(files, answer) ==
    LET existing == existing_files(files)
        checks == [n \in 1..Len(files) |-> FsEvent("exists", files[n])]
    IN  [result |-> TRUE,
         events |-> IF existing = << >> THEN checks
                    ELSE Append(checks, AskYesNo("confirm_overwrite", existing, answer))]

\* the value returned and the calls made; answer is what the user clicks
_confirm_overwrite(files, answer) ==
    LET existing == existing_files(files)
        checks == [n \in 1..Len(files) |-> FsEvent("exists", files[n])]
    IN  IF existing = << >>
        THEN [result |-> TRUE, events |-> checks]
        ELSE [result |-> answer,
              events |-> Append(checks, AskYesNo("confirm_overwrite", existing, answer))]

WriteFaults == {"none", "PermissionError", "OSError"}

save_appending(path, content, fault) ==
    [path |-> path,
     events |-> <<FsEvent("mkdir", parent(path)), FsEvent("write", path)>>,
     file |-> CASE fault = "none" -> FileOf(File(path).text \o content)
                [] fault = "PermissionError" -> File(path)
                [] fault = "OSError" -> File(path),
     raised |-> fault]

\* path.parent.mkdir(parents=True, exist_ok=True), then the file is opened
\* for writing and the content written.  PermissionError: the open is
\* refused; OSError: the write fails after the open has truncated the file.
save(path, content, fault) ==
    [path |-> path,
     events |-> <<FsEvent("mkdir", parent(path)), FsEvent("write", path)>>,
     file |-> CASE fault = "none" -> FileOf(content)
                [] fault = "PermissionError" -> File(path)
                [] fault = "OSError" -> FileOf(<< >>),
     raised |-> fault]

_save_text(path, content, fault) == save(path, content, fault)

_save_json(path, data, fault) ==
    save(path, json_dumps(data, 0) \o <<"\n">>, fault)

\* the except clauses of the two writers
write_failed(fault) ==
    IF fault = "PermissionError"
    THEN [status |-> "write_failed_permission", toast |-> Toast("no_write_permission", "error"),
          exit |-> "permission_error"]
    ELSE [status |-> "write_failed", toast |-> Toast("write_failed", "error"),
          exit |-> "write_error"]

(***************************************************************************)
(* write_codex.  warn_answer and overwrite_answer are the clicks in the    *)
(* two dialogs; fault_config and fault_auth are what the file system does  *)
(* to the two writes.                                                      *)
(***************************************************************************)
valid_api_key_accepts_placeholder(api_key) == api_key # << >>

\* not (not api_key or api_key == "sk-")
valid_api_key(api_key) == api_key # << >> /\ api_key # SK_PREFIX

or_default_unstripped(value, default) == IF strip(value) # << >> THEN value ELSE default

\* value.strip() or DEFAULT
or_default(value, default) == IF strip(value) # << >> THEN strip(value) ELSE default

auth_data(api_key) == JObj(<<[k |-> OPENAI_API_KEY, v |-> JStr(api_key)]>>)

\* what a press of the button can meet: a dialog that is not shown has no
\* answer (yes stands for it), a write that is not made has no fault
write_codex_meets(warn_answer, overwrite_answer, fault_config, fault_auth) ==
    LET api_key == strip(codex_api_key_var)
        warned == ~startswith(api_key, SK_PREFIX)
        asked == /\ valid_api_key(api_key) /\ (warned => warn_answer)
                 /\ existing_files(<<CODEX_CONFIG, CODEX_AUTH>>) # << >>
        proceeds == /\ valid_api_key(api_key) /\ (warned => warn_answer)
                    /\ (asked => overwrite_answer)
    IN  /\ ~warn_answer => valid_api_key(api_key) /\ warned
        /\ ~overwrite_answer => asked
        /\ fault_config # "none" => proceeds
        /\ fault_auth # "none" => proceeds /\ fault_config = "none"

write_codex(warn_answer, overwrite_answer, fault_config, fault_auth) ==
    LET api_key == strip(codex_api_key_var)
        warned == ~startswith(api_key, SK_PREFIX)
        warning == IF warned THEN <<AskYesNo("sk_prefix_warning", << >>, warn_answer)>>
                   ELSE << >>
        confirm == _confirm_overwrite(<<CODEX_CONFIG, CODEX_AUTH>>, overwrite_answer)
        base_url == or_default(codex_base_url_var, CODEX_BASE_URL)
        model == or_default(codex_model_var, CODEX_MODEL)
        reasoning == or_default(codex_reasoning_var, CODEX_REASONING)
        verbosity == or_default(codex_verbosity_var, CODEX_VERBOSITY)
        text == _save_text(CODEX_CONFIG,
                           config_content(model, reasoning, verbosity, base_url), fault_config)
        json == _save_json(CODEX_AUTH, auth_data(api_key), fault_auth)
    IN  /\ write_codex_meets(warn_answer, overwrite_answer, fault_config, fault_auth)
        /\ prev' = last
        /\ UNCHANGED <<codex_vars, claude_vars, edits>>
        /\ IF ~valid_api_key(api_key)
           THEN /\ trace' = <<Toast("invalid_api_key", "error")>>
                /\ status_var' = "missing_api_key"
                /\ last' = Done("write_codex", "validation_error")
                /\ FsApply(<< >>)
           ELSE IF warned /\ ~warn_answer
           THEN /\ trace' = warning
                /\ status_var' = "cancelled"
                /\ last' = Done("write_codex", "cancelled")
                /\ FsApply(<< >>)
           ELSE IF ~confirm.result
           THEN /\ trace' = warning \o confirm.events
                /\ status_var' = "cancelled"
                /\ last' = Done("write_codex", "cancelled")
                /\ FsApply(<< >>)
           ELSE IF text.raised # "none"
           THEN /\ trace' = Join(<<warning, confirm.events, text.events,
                                   <<write_failed(text.raised).toast>> >>)
                /\ status_var' = write_failed(text.raised).status
                /\ last' = Done("write_codex", write_failed(text.raised).exit)
                /\ FsApply(<<text>>)
           ELSE IF json.raised # "none"
           THEN /\ trace' = Join(<<warning, confirm.events, text.events, json.events,
                                   <<write_failed(json.raised).toast>> >>)
                /\ status_var' = write_failed(json.raised).status
                /\ last' = Done("write_codex", write_failed(json.raised).exit)
                /\ FsApply(<<text, json>>)
           ELSE /\ trace' = Join(<<warning, confirm.events, text.events, json.events,
                                   <<Toast("codex_written", "success")>> >>)
                /\ status_var' = "codex_written"
                /\ last' = Done("write_codex", "success")
                /\ FsApply(<<text, json>>)

(***************************************************************************)
(* write_claude.                                                           *)
(***************************************************************************)
\* not (not token)
valid_token(token) == token # << >>

disable_traffic_entry_never_omitted(disable_traffic) ==
    <<[k |-> CLAUDE_CODE_DISABLE_NONESSENTIAL_TRAFFIC,
       v |-> JStr(IF disable_traffic THEN ONE ELSE <<"0">>)]>>

\* if self.claude_disable_traffic_var.get(): env[...] = "1"
disable_traffic_entry(disable_traffic) ==
    IF disable_traffic
    THEN <<[k |-> CLAUDE_CODE_DISABLE_NONESSENTIAL_TRAFFIC, v |-> JStr(ONE)]>>
    ELSE << >>

claude_env_flag_as_true(base_url, token, opus, disable_traffic) ==
    <<[k |-> ANTHROPIC_BASE_URL, v |-> JStr(base_url)],
      [k |-> ANTHROPIC_AUTH_TOKEN, v |-> JStr(token)],
      [k |-> ANTHROPIC_DEFAULT_OPUS_MODEL, v |-> JStr(opus)],
      [k |-> CLAUDE_CODE_DISABLE_NONESSENTIAL_TRAFFIC,
       v |-> JStr(IF disable_traffic THEN <<"t", "r", "u", "e">> ELSE <<"0">>)]>>

\* the env dictionary of write_claude
claude_env(base_url, token, opus, disable_traffic) ==
    <<[k |-> ANTHROPIC_BASE_URL, v |-> JStr(base_url)],
      [k |-> ANTHROPIC_AUTH_TOKEN, v |-> JStr(token)],
      [k |-> ANTHROPIC_DEFAULT_OPUS_MODEL, v |-> JStr(opus)]>>
    \o disable_traffic_entry(disable_traffic)

\* what a press of the button can meet
write_claude_meets(overwrite_answer, fault) ==
    LET token == strip(claude_token_var)
        asked == valid_token(token) /\ existing_files(<<CLAUDE_CONFIG>>) # << >>
    IN  /\ ~overwrite_answer => asked
        /\ fault # "none" => valid_token(token) /\ (asked => overwrite_answer)

write_claude(overwrite_answer, fault) ==
    LET token == strip(claude_token_var)
        confirm == _confirm_overwrite(<<CLAUDE_CONFIG>>, overwrite_answer)
        base_url == or_default(claude_base_url_var, CLAUDE_BASE_URL)
        opus == or_default(claude_opus_var, CLAUDE_OPUS_MODEL)
        env == claude_env(base_url, token, opus, claude_disable_traffic_var)
        config == JObj(<<[k |-> K_env, v |-> JObj(env)]>>)
        json == _save_json(CLAUDE_CONFIG, config, fault)
    IN  /\ write_claude_meets(overwrite_answer, fault)
        /\ prev' = last
        /\ UNCHANGED <<codex_vars, claude_vars, edits>>
        /\ IF ~valid_token(token)
           THEN /\ trace' = <<Toast("invalid_token", "error")>>
                /\ status_var' = "missing_token"
                /\ last' = Done("write_claude", "validation_error")
                /\ FsApply(<< >>)
           ELSE IF ~confirm.result
           THEN /\ trace' = confirm.events
                /\ status_var' = "cancelled"
                /\ last' = Done("write_claude", "cancelled")
                /\ FsApply(<< >>)
           ELSE /\ trace' = Join(<<confirm.events, json.events,
                                   IF json.raised # "none"
                                   THEN <<write_failed(json.raised).toast>>
                                   ELSE <<Toast("claude_written", "success")>> >>)
                /\ status_var' = IF json.raised # "none" THEN write_failed(json.raised).status
                                 ELSE "claude_written"
                /\ last' = Done("write_claude",
                                IF json.raised # "none" THEN write_failed(json.raised).exit
                                ELSE "success")
                /\ FsApply(<<json>>)

(***************************************************************************)
(* One button press or edit at a time (single-threaded event loop).        *)
(***************************************************************************)
\* the buttons of the Codex page; faults are the write faults that can occur
press_codex(faults) ==
    \/ \E unreadable \in {"-", CODEX_CONFIG, CODEX_AUTH} : load_codex(unreadable)
    \/ \E warn_answer, overwrite_answer \in BOOLEAN, fault_config, fault_auth \in faults :
          write_codex(warn_answer, overwrite_answer, fault_config, fault_auth)

\* the buttons of the Claude Code page
press_claude(faults) ==
    \/ \E unreadable \in BOOLEAN : load_claude(unreadable)
    \/ \E overwrite_answer \in BOOLEAN, fault \in faults :
          write_claude(overwrite_answer, fault)

\* a session on both pages, in a home directory that holds auth.json and
\* settings.json: the credentials are typed or loaded, the other fields are
\* loaded or left at their defaults, and a write that fails is refused
\* before it touches the file
Next ==
    \/ edit_codex_api_key(ApiKeyInputs)
    \/ edit_claude_token({TOKEN_PADDED})
    \/ press_codex({"none", "PermissionError"})
    \/ press_claude({"none", "PermissionError"})

Spec == Init /\ [][Next]_vars

\* a session on the Codex page only
NextCodex ==
    \/ edit_codex_api_key(ApiKeyInputs)
    \/ edit_codex_model(ModelInputs)
    \/ edit_codex_reasoning(ReasoningInputs)
    \/ edit_codex_verbosity(VerbosityInputs)
    \/ press_codex(WriteFaults)

SpecCodex == InitCodex /\ [][NextCodex]_vars

\* a session on the Claude Code page only
NextClaude ==
    \/ edit_claude_token(TokenInputs)
    \/ edit_claude_base_url(ClaudeUrlInputs)
    \/ edit_claude_opus(OpusInputs)
    \/ toggle_claude_disable_traffic
    \/ press_claude(WriteFaults)

SpecClaude == InitClaude /\ [][NextClaude]_vars

TypeOK ==
    /\ edits \in 0..MaxEdits
    /\ claude_disable_traffic_var \in BOOLEAN
    /\ codex_dir \in BOOLEAN /\ claude_dir \in BOOLEAN


(***************************************************************************)
(* Properties.  A step is recognised by what it leaves in last and trace;  *)
(* the unprimed variables of an action formula are the state in which the  *)
(* button was pressed.                                                     *)
(***************************************************************************)
Wrote == {"write_codex", "write_claude"}

\* the overwrite confirmations among the events
Confirmations(events) == SelectSeq(events, LAMBDA e : e.ev = "askyesno" /\ e.what = "confirm_overwrite")

\* C1: write_codex pressed with an api_key that is empty or sk-, and
\* write_claude pressed with an empty token, end in the validation error
\* with nothing but the error toast: no target file is checked, created or
\* modified, no directory is created and no dialog is shown.
C1_RejectedCredentialTouchesNothing ==
    [][ LET rejected ==
              \/ last'.op = "write_codex" /\ strip(codex_api_key_var) \in {<< >>, SK_PREFIX}
              \/ last'.op = "write_claude" /\ strip(claude_token_var) = << >>
        IN  rejected =>
              /\ last'.exit = "validation_error"
              /\ Len(trace') = 1 /\ trace'[1].ev = "toast" /\ trace'[1].answer = "error"
              /\ UNCHANGED <<codex_files, claude_files>> ]_vars

C1_Witness ==
    /\ last = Done("write_codex", "validation_error")
    /\ prev = Done("write_claude", "validation_error")
    /\ strip(codex_api_key_var) = SK_PREFIX
    /\ claude_token_var = << >>
    /\ codex_auth.exists /\ claude_config.exists

\* C2: the Codex handlers never change settings.json or a field of the
\* Claude Code page, and the Claude Code handlers never change config.toml,
\* auth.json or a field of the Codex page.
C2_PagesAreIndependent ==
    [][ /\ last'.op \in {"load_codex", "write_codex"} =>
              UNCHANGED <<claude_config, claude_vars>>
        /\ last'.op \in {"load_claude", "write_claude"} =>
              UNCHANGED <<codex_config, codex_auth, codex_vars>> ]_vars

C2_Witness ==
    /\ last = Done("write_claude", "success")
    /\ prev = Done("write_codex", "success")
    /\ codex_api_key_var # << >>

\* C3: when the user answers no to the overwrite confirmation, every target
\* file keeps its content, no file or directory is created, and the press
\* ends as a cancelled no-op, without an error.
C3_DeclinedOverwriteChangesNothing ==
    [][ LET asked == Confirmations(trace')
        IN  (last'.op \in Wrote /\ asked # << >> /\ asked[1].answer = "no") =>
              /\ UNCHANGED <<codex_files, claude_files>>
              /\ last'.exit = "cancelled"
              /\ status_var' = "cancelled"
              /\ Toasts' = << >>
              /\ \A n \in 1..Len(trace') : trace'[n].ev \notin {"mkdir", "write"} ]_vars

C3_Witness ==
    /\ last = Done("write_codex", "cancelled")
    /\ Confirmations(trace) = <<AskYesNo("confirm_overwrite", <<CODEX_AUTH>>, FALSE)>>
    /\ ~codex_config.exists /\ codex_auth.exists

C5_CodexRoundTrip ==
    [][ (last = Done("write_codex", "success") /\ last'.op = "load_codex") =>
          /\ codex_api_key_var' \in {codex_api_key_var, strip(codex_api_key_var)}
          /\ codex_base_url_var' \in
                {codex_base_url_var, or_default(codex_base_url_var, CODEX_BASE_URL)}
          /\ codex_model_var' \in {codex_model_var, or_default(codex_model_var, CODEX_MODEL)}
          /\ codex_reasoning_var' \in
                {codex_reasoning_var, or_default(codex_reasoning_var, CODEX_REASONING)}
          /\ codex_verbosity_var' \in
                {codex_verbosity_var, or_default(codex_verbosity_var, CODEX_VERBOSITY)} ]_vars

\* the env object of a settings document (an empty object if there is none)
EnvOf(data) ==
    IF data.ok /\ data.v.t = "obj" /\ get(data.v, K_env).t = "obj" THEN get(data.v, K_env)
    ELSE JObj(<< >>)

\* the entry of the disable flag in the text of settings.json
FlagInFile(text) == get(EnvOf(json_loads(text)), CLAUDE_CODE_DISABLE_NONESSENTIAL_TRAFFIC)
FlagKeyInFile(text) == Has(EnvOf(json_loads(text)), CLAUDE_CODE_DISABLE_NONESSENTIAL_TRAFFIC)

\* C6: after a successful write_claude with the flag set, the file holds the
\* flag key and load_claude yields true; after one with the flag clear, the
\* file holds no flag key and load_claude yields false.
C6_DisableFlagRoundTrip ==
    [][ (last = Done("write_claude", "success") /\ last'.op = "load_claude") =>
          /\ FlagKeyInFile(claude_config.text) <=> claude_disable_traffic_var
          /\ last'.exit = "success" => claude_disable_traffic_var' = claude_disable_traffic_var
          /\ UNCHANGED claude_config ]_vars

C6_Witness ==
    /\ last = Done("load_claude", "success")
    /\ prev = Done("write_claude", "success")
    /\ ~claude_disable_traffic_var
    /\ ~FlagKeyInFile(claude_config.text)

C8_MissingSettingsIsNotFound ==
    [][ (last'.op = "load_claude" /\ ~claude_config.exists) =>
          /\ last'.exit = "not_found"
          /\ Toasts' = <<Toast("settings_not_found", "warning")>>
          /\ status_var' # "claude_load_failed"
          /\ UNCHANGED <<claude_vars, codex_files, claude_files>> ]_vars

C8_Witness ==
    /\ last = Done("load_claude", "not_found")
    /\ ~claude_config.exists
    /\ claude_token_var = TOKEN_PADDED

\* the text has the line key = "value"
HasLine(text, key, value) ==
    \E i \in 1..Len(text) :
        /\ LineStart(text, i)
        /\ MatchLit(text, i, Join(<<key, <<" ", "=", " ", "\"">>, value, <<"\"", "\n">> >>))

\* the value supplied in a field, read literally: the default for a blank field
Supplied(field, default) == IF strip(field) = << >> THEN default ELSE field

\* the value supplied in a field, without the white space around it
SuppliedTrimmed(field, default) == IF strip(field) = << >> THEN default ELSE strip(field)

\* the entry of a key in the JSON object that a file holds
InFile(text, key) == get_loaded(json_loads(text), key).val

\* C9 as stated: a successful write_codex leaves a config.toml with the
\* supplied model, reasoning effort, verbosity and base_url (the default for a
\* blank field) and an auth.json whose OPENAI_API_KEY is the api_key field
\* verbatim.
C9_WrittenCodexFilesAsStated ==
    [][ (last' = Done("write_codex", "success")) =>
          /\ HasLine(codex_config'.text, K_model, Supplied(codex_model_var, CODEX_MODEL))
          /\ HasLine(codex_config'.text, K_model_reasoning_effort,
                     Supplied(codex_reasoning_var, CODEX_REASONING))
          /\ HasLine(codex_config'.text, K_model_verbosity,
                     Supplied(codex_verbosity_var, CODEX_VERBOSITY))
          /\ HasLine(codex_config'.text, K_base_url, Supplied(codex_base_url_var, CODEX_BASE_URL))
          /\ InFile(codex_auth'.text, OPENAI_API_KEY) = JStr(codex_api_key_var) ]_vars

\* C9: a successful write_codex leaves a config.toml with the supplied
\* model, reasoning effort, verbosity and base_url without the white space
\* around them (the default for a blank field) and an auth.json whose
\* OPENAI_API_KEY is the api_key field without the white space around it.
C9_WrittenCodexFiles ==
    [][ (last' = Done("write_codex", "success")) =>
          /\ HasLine(codex_config'.text, K_model, SuppliedTrimmed(codex_model_var, CODEX_MODEL))
          /\ HasLine(codex_config'.text, K_model_reasoning_effort,
                     SuppliedTrimmed(codex_reasoning_var, CODEX_REASONING))
          /\ HasLine(codex_config'.text, K_model_verbosity,
                     SuppliedTrimmed(codex_verbosity_var, CODEX_VERBOSITY))
          /\ HasLine(codex_config'.text, K_base_url,
                     SuppliedTrimmed(codex_base_url_var, CODEX_BASE_URL))
          /\ InFile(codex_auth'.text, OPENAI_API_KEY) = JStr(strip(codex_api_key_var)) ]_vars

C9_Witness ==
    /\ last = Done("write_codex", "success")
    /\ codex_reasoning_var = TEXT_PADDED
    /\ HasLine(codex_config.text, K_model_reasoning_effort, strip(TEXT_PADDED))
    /\ InFile(codex_auth.text, OPENAI_API_KEY) = JStr(codex_api_key_var)

\* the entry of a key in the env object of the text of settings.json
EnvInFile(text, key) == get(EnvOf(json_loads(text)), key)

\* C10 as stated: a successful write_claude leaves a settings.json whose
\* env holds the supplied base_url, token and opus model (the defaults for a
\* blank base_url or opus model), and the flag key with value 1 iff the
\* check box is set.
C10_WrittenSettingsAsStated ==
    [][ (last' = Done("write_claude", "success")) =>
          /\ EnvInFile(claude_config'.text, ANTHROPIC_BASE_URL) =
                JStr(Supplied(claude_base_url_var, CLAUDE_BASE_URL))
          /\ EnvInFile(claude_config'.text, ANTHROPIC_AUTH_TOKEN) = JStr(claude_token_var)
          /\ EnvInFile(claude_config'.text, ANTHROPIC_DEFAULT_OPUS_MODEL) =
                JStr(Supplied(claude_opus_var, CLAUDE_OPUS_MODEL))
          /\ FlagKeyInFile(claude_config'.text) <=> claude_disable_traffic_var
          /\ claude_disable_traffic_var => FlagInFile(claude_config'.text) = JStr(ONE) ]_vars

\* C10: a successful write_claude leaves a settings.json whose env holds the
\* supplied base_url, token and opus model without the white space around
\* them (the defaults for a blank base_url or opus model), and the flag key
\* with value 1 iff the check box is set.
C10_WrittenSettings ==
    [][ (last' = Done("write_claude", "success")) =>
          /\ EnvInFile(claude_config'.text, ANTHROPIC_BASE_URL) =
                JStr(SuppliedTrimmed(claude_base_url_var, CLAUDE_BASE_URL))
          /\ EnvInFile(claude_config'.text, ANTHROPIC_AUTH_TOKEN) = JStr(strip(claude_token_var))
          /\ EnvInFile(claude_config'.text, ANTHROPIC_DEFAULT_OPUS_MODEL) =
                JStr(SuppliedTrimmed(claude_opus_var, CLAUDE_OPUS_MODEL))
          /\ FlagKeyInFile(claude_config'.text) <=> claude_disable_traffic_var
          /\ claude_disable_traffic_var => FlagInFile(claude_config'.text) = JStr(ONE) ]_vars

C10_Witness ==
    /\ last = Done("write_claude", "success")
    /\ claude_token_var = TOKEN_PADDED
    /\ EnvInFile(claude_config.text, ANTHROPIC_AUTH_TOKEN) = JStr(strip(TOKEN_PADDED))
    /\ EnvInFile(claude_config.text, ANTHROPIC_BASE_URL) = JStr(CLAUDE_BASE_URL)
    /\ FlagInFile(claude_config.text) = JStr(ONE)

\* the keys of the env object in the text of settings.json
EnvKeys(text) ==
    {EnvOf(json_loads(text)).items[n].k : n \in 1..Len(EnvOf(json_loads(text)).items)}

\* the name that the specification gives to the key of the disable flag
ANTHROPIC_CODE_DISABLE_NONESSENTIAL_TRAFFIC ==
    <<"A","N","T","H","R","O","P","I","C","_","C","O","D","E","_","D","I","S","A","B","L","E","_",
    "N","O","N","E","S","S","E","N","T","I","A","L","_","T","R","A","F","F","I","C">>

\* the keys of env after a write with the flag recorded under flag_key
KeysWritten(flag_key, disable_traffic) ==
    {ANTHROPIC_BASE_URL, ANTHROPIC_AUTH_TOKEN, ANTHROPIC_DEFAULT_OPUS_MODEL}
        \cup (IF disable_traffic THEN {flag_key} ELSE {})

\* C11 as stated: the env that write_claude serializes records the disable
\* flag under the key ANTHROPIC_CODE_DISABLE_NONESSENTIAL_TRAFFIC, with value
\* 1 when the flag is set, and has no such key otherwise.
C11_FlagKeyNameAsStated ==
    [][ (last' = Done("write_claude", "success")) =>
          /\ EnvKeys(claude_config'.text) =
                KeysWritten(ANTHROPIC_CODE_DISABLE_NONESSENTIAL_TRAFFIC, claude_disable_traffic_var)
          /\ claude_disable_traffic_var =>
                EnvInFile(claude_config'.text, ANTHROPIC_CODE_DISABLE_NONESSENTIAL_TRAFFIC)
                   = JStr(ONE) ]_vars

\* C11: the env that write_claude serializes records the disable flag under
\* the key CLAUDE_CODE_DISABLE_NONESSENTIAL_TRAFFIC, with value 1 when the
\* flag is set; otherwise env has the three other keys and nothing else.
C11_FlagKeyName ==
    [][ (last' = Done("write_claude", "success")) =>
          /\ EnvKeys(claude_config'.text) =
                KeysWritten(CLAUDE_CODE_DISABLE_NONESSENTIAL_TRAFFIC, claude_disable_traffic_var)
          /\ claude_disable_traffic_var =>
                EnvInFile(claude_config'.text, CLAUDE_CODE_DISABLE_NONESSENTIAL_TRAFFIC)
                   = JStr(ONE) ]_vars

C11_Witness ==
    /\ last = Done("write_claude", "success")
    /\ prev = Done("edit", "-")
    /\ ~claude_disable_traffic_var
    /\ Cardinality(EnvKeys(claude_config.text)) = 3

\* the file holds the four values of the Codex page as write_codex writes them
HoldsProfile(file) ==
    /\ file.exists
    /\ HasLine(file.text, K_model, SuppliedTrimmed(codex_model_var, CODEX_MODEL))
    /\ HasLine(file.text, K_model_reasoning_effort,
               SuppliedTrimmed(codex_reasoning_var, CODEX_REASONING))
    /\ HasLine(file.text, K_model_verbosity, SuppliedTrimmed(codex_verbosity_var, CODEX_VERBOSITY))
    /\ HasLine(file.text, K_base_url, SuppliedTrimmed(codex_base_url_var, CODEX_BASE_URL))

\* the file holds the api key of the Codex page as write_codex writes it
HoldsKey(file) ==
    file.exists /\ InFile(file.text, OPENAI_API_KEY) = JStr(strip(codex_api_key_var))

WriteErrors == {"permission_error", "write_error"}

\* C12: write_codex writes config.toml and then auth.json, without a
\* transaction.  A press that tries to write config.toml and does not leave
\* the new content in it leaves auth.json untouched and ends in the
\* permission error or the generic write error; a press that tries to write
\* auth.json and does not leave the new key in it ends in one of the two
\* errors with the new content in config.toml.
C12_NoTransactionAcrossFiles ==
    [][ (last'.op = "write_codex") =>
          /\ (/\ FsEvent("write", CODEX_CONFIG) \in {trace'[n] : n \in 1..Len(trace')}
              /\ ~HoldsProfile(codex_config')) =>
                /\ UNCHANGED codex_auth
                /\ FsEvent("write", CODEX_AUTH) \notin {trace'[n] : n \in 1..Len(trace')}
                /\ last'.exit \in WriteErrors
          /\ (/\ FsEvent("write", CODEX_AUTH) \in {trace'[n] : n \in 1..Len(trace')}
              /\ ~HoldsKey(codex_auth')) =>
                /\ HoldsProfile(codex_config')
                /\ last'.exit \in WriteErrors
          /\ last'.exit \in WriteErrors =>
                /\ Len(Toasts') = 1 /\ Toasts'[1].answer = "error"
                /\ (last'.exit = "permission_error") <=>
                      (Toasts'[1] = Toast("no_write_permission", "error")) ]_vars

\* a new config.toml next to a missing auth.json
C12_Witness ==
    /\ last = Done("write_codex", "permission_error")
    /\ HoldsProfile(codex_config)
    /\ codex_api_key_var = KEY_VALID_PADDED
    /\ ~codex_auth.exists

\* What a handler was given, read from the events it left and the state it
\* left them in: the answers to a dialog (any answer, if it was not shown) ...
AnswersTo(title, events) ==
    IF \E n \in 1..Len(events) : events[n].ev = "askyesno" /\ events[n].what = title
    THEN {a \in BOOLEAN :
            \E n \in 1..Len(events) : events[n] = AskYesNo(title, events[n].files, a)}
    ELSE BOOLEAN

\* ... the write that failed and how ...
FaultOf(path, events, done) ==
    IF done.exit \in WriteErrors /\ events[Len(events) - 1] = FsEvent("write", path)
    THEN done.exit
    ELSE "none"

\* ... and the read that failed though the file is sound
ReadFaultOf(events, done, auth_sound, settings_sound) ==
    IF done.exit # "error" THEN "-"
    ELSE IF done.op = "load_claude" THEN (IF settings_sound THEN CLAUDE_CONFIG ELSE "-")
    ELSE IF FsEvent("read", CODEX_AUTH) \notin {events[n] : n \in 1..Len(events)}
         THEN CODEX_CONFIG
    ELSE IF auth_sound THEN CODEX_AUTH ELSE "-"

\* the step presses the button of the step before, and meets what that met
PressedAgain ==
    /\ last.op \in {"load_codex", "load_claude", "write_codex", "write_claude"}
    /\ last'.op = last.op
    /\ AnswersTo("sk_prefix_warning", trace) \cap AnswersTo("sk_prefix_warning", trace') # {}
    /\ AnswersTo("confirm_overwrite", trace) \cap AnswersTo("confirm_overwrite", trace') # {}
    /\ \A path \in {CODEX_CONFIG, CODEX_AUTH, CLAUDE_CONFIG} :
          FaultOf(path, trace, last) = FaultOf(path, trace', last')
    /\ ReadFaultOf(trace, last, ~read_api_key(codex_auth.text).raised,
                   ~read_env(claude_config.text).raised)
         = ReadFaultOf(trace', last', ~read_api_key(codex_auth.text).raised,
                       ~read_env(claude_config.text).raised)

\* C13: each of the four handlers is idempotent on the fields and the three
\* files: pressed twice in a row with the same answers and the same faults of
\* the file system, it leaves them after the second press as they were after
\* the first; and no outcome disables a button: in every state each of the
\* four handlers can be pressed.
C13_Idempotent ==
    /\ [][ PressedAgain =>
             UNCHANGED <<codex_vars, claude_vars, codex_config, codex_auth, claude_config>> ]_vars
    /\ [](/\ \E unreadable \in {"-", CODEX_CONFIG, CODEX_AUTH} : load_codex_meets(unreadable)
          /\ \E unreadable \in BOOLEAN : load_claude_meets(unreadable)
          /\ \E w, o \in BOOLEAN, fc, fa \in WriteFaults : write_codex_meets(w, o, fc, fa)
          /\ \E o \in BOOLEAN, f \in WriteFaults : write_claude_meets(o, f))

C13_Witness ==
    /\ last = Done("write_codex", "success")
    /\ prev = Done("write_codex", "success")
    /\ Confirmations(trace) # << >>
    /\ claude_token_var # << >>

\* the value that load_codex takes from config.toml for a key, or the value held
FromConfig(key, held) ==
    IF codex_config.exists /\ _toml_get(codex_config.text, key).found
       /\ _toml_get(codex_config.text, key).val # << >>
    THEN _toml_get(codex_config.text, key).val
    ELSE held

\* C14: when load_codex fails at auth.json (malformed JSON, unreadable file),
\* it reports exactly one error and no success, the four fields hold what
\* the same press took from config.toml, and api_key holds its prior value.
C14_AuthFailureKeepsConfigValues ==
    [][ (/\ last'.op = "load_codex"
         /\ FsEvent("read", CODEX_AUTH) \in {trace'[n] : n \in 1..Len(trace')}
         /\ (last'.exit = "error" \/ ~json_loads(codex_auth.text).ok)) =>
          /\ last'.exit = "error"
          /\ Toasts' = <<Toast("load_failed", "error")>>
          /\ status_var' = "codex_load_failed"
          /\ codex_api_key_var' = codex_api_key_var
          /\ codex_model_var' = FromConfig(K_model, codex_model_var)
          /\ codex_reasoning_var' = FromConfig(K_model_reasoning_effort, codex_reasoning_var)
          /\ codex_verbosity_var' = FromConfig(K_model_verbosity, codex_verbosity_var)
          /\ codex_base_url_var' = FromConfig(K_base_url, codex_base_url_var) ]_vars

C14_Witness ==
    /\ last = Done("load_codex", "error")
    /\ codex_auth.text = AUTH_MALFORMED
    /\ codex_config.text = CONFIG_ON_DISK
    /\ codex_model_var = <<"m", "1">>
    /\ codex_base_url_var = <<"u", "1">>
    /\ codex_api_key_var = KEY_VALID_PADDED

\* the index after the white space and equals signs that start at text[i]
RECURSIVE SkipAssign(_, _)
SkipAssign(text, i) ==
    IF i <= Len(text) /\ text[i] \in {" ", "\t", "\n", "="} THEN SkipAssign(text, i + 1) ELSE i

\* the text assigns the quoted value to the key somewhere
Assigns(text, key, value) ==
    \E i \in 1..Len(text) :
        /\ MatchLit(text, i, key)
        /\ MatchLit(text, SkipAssign(text, i + Len(key)),
                    Join(<< <<"\"">>, value, <<"\"">> >>))

\* a field after load_codex: as it was, or a non-empty value of its key in config.toml
KeptOrFromConfig(before, after, key) ==
    \/ after = before
    \/ /\ after # << >>
       /\ codex_config.exists
       /\ Assigns(codex_config.text, key, after)

\* C15: load_codex changes a field only to a non-empty value found for its
\* key in the file of that field; a missing file, an absent key, a key that
\* is not written as key = "value" and an empty value leave the field as it
\* was, and no field is ever set to the empty string.
C15_LoadTakesOnlyFoundValues ==
    [][ (last'.op = "load_codex") =>
          /\ KeptOrFromConfig(codex_model_var, codex_model_var', K_model)
          /\ KeptOrFromConfig(codex_reasoning_var, codex_reasoning_var', K_model_reasoning_effort)
          /\ KeptOrFromConfig(codex_verbosity_var, codex_verbosity_var', K_model_verbosity)
          /\ KeptOrFromConfig(codex_base_url_var, codex_base_url_var', K_base_url)
          /\ \/ codex_api_key_var' = codex_api_key_var
             \/ /\ codex_api_key_var' # << >>
                /\ codex_auth.exists
                /\ InFile(codex_auth.text, OPENAI_API_KEY).t = "str"
                /\ codex_api_key_var' = strip(InFile(codex_auth.text, OPENAI_API_KEY).s) ]_vars

C15_Witness ==
    /\ last = Done("load_codex", "success")
    /\ codex_config.text = CONFIG_ON_DISK
    /\ codex_model_var = <<"m", "1">>
    /\ codex_reasoning_var = CODEX_REASONING
    /\ codex_verbosity_var = CODEX_VERBOSITY
    /\ codex_api_key_var = <<"s", "k", "-", "d">>

\* the yes/no prompts about the sk- prefix among the events
PrefixWarnings(events) ==
    SelectSeq(events, LAMBDA e : e.ev = "askyesno" /\ e.what = "sk_prefix_warning")

\* the key has the three characters sk- in front
HasSkPrefix(key) == Len(key) >= 3 /\ SubSeq(key, 1, 3) = <<"s", "k", "-">>

\* C16: in write_codex an api_key that passes validation and does not start
\* with sk- brings up a yes/no warning before anything else, so before the
\* overwrite confirmation and its existence checks; the answer no ends the
\* action as cancelled with no existence check, no write, no toast and the
\* files as they were; the answer yes goes on to the existence checks.  An
\* api_key that starts with sk-, or that fails validation, brings up no
\* such prompt.
C16_PrefixWarning ==
    [][ (last'.op = "write_codex") =>
          LET api_key == strip(codex_api_key_var)
              valid == api_key # << >> /\ api_key # <<"s", "k", "-">>
          IN  IF valid /\ ~HasSkPrefix(api_key)
              THEN /\ Len(PrefixWarnings(trace')) = 1
                   /\ trace'[1] \in {AskYesNo("sk_prefix_warning", << >>, TRUE),
                                     AskYesNo("sk_prefix_warning", << >>, FALSE)}
                   /\ trace'[1].answer = "no" =>
                        /\ Len(trace') = 1
                        /\ last'.exit = "cancelled"
                        /\ status_var' = "cancelled"
                        /\ UNCHANGED <<codex_files, claude_files, codex_vars>>
                   /\ trace'[1].answer = "yes" =>
                        /\ Len(trace') >= 3
                        /\ trace'[2] = FsEvent("exists", CODEX_CONFIG)
                        /\ trace'[3] = FsEvent("exists", CODEX_AUTH)
              ELSE PrefixWarnings(trace') = << >> ]_vars

C16_Witness ==
    /\ last = Done("write_codex", "cancelled")
    /\ codex_api_key_var = KEY_NO_PREFIX
    /\ trace = <<AskYesNo("sk_prefix_warning", << >>, FALSE)>>
    /\ codex_auth.exists

\* the values the two dropdowns offer
ReasoningValues ==
    {<<"a","u","t","o">>, <<"l","o","w">>, <<"m","e","d","i","u","m">>,
     <<"h","i","g","h">>, <<"x","h","i","g","h">>}
VerbosityValues == {<<"l","o","w">>, <<"m","e","d","i","u","m">>, <<"h","i","g","h">>}

\* the two fields of the profile hold offered values
FieldsInEnums ==
    /\ codex_reasoning_var \in ReasoningValues
    /\ codex_verbosity_var \in VerbosityValues

\* the config.toml a press of write_codex has just written holds offered values
WrittenInEnums ==
    (last = Done("write_codex", "success")) =>
        /\ \E r \in ReasoningValues : HasLine(codex_config.text, K_model_reasoning_effort, r)
        /\ \E v \in VerbosityValues : HasLine(codex_config.text, K_model_verbosity, v)

\* C17: in every reachable state reasoning_effort is one of auto, low,
\* medium, high, xhigh and verbosity is one of low, medium, high, so every
\* model_reasoning_effort and model_verbosity that write_codex puts into
\* config.toml is one of those values.
C17_EnumsAsStated == FieldsInEnums /\ WrittenInEnums

\* a JSON entry that is a string, non-empty, with no white space at either end
CleanCredential(entry) ==
    /\ entry.t = "str"
    /\ entry.s # << >>
    /\ ~IsSpace(entry.s[1])
    /\ ~IsSpace(entry.s[Len(entry.s)])

\* the events hold a write of the file
Writes(events, path) == \E n \in 1..Len(events) : events[n] = FsEvent("write", path)

\* C18: from a state where the tool has written none of the files, every
\* auth.json the tool writes holds an OPENAI_API_KEY that is non-empty, has
\* no white space at either end and is not sk-, and every settings.json the
\* tool writes holds a non-empty ANTHROPIC_AUTH_TOKEN with no white space at
\* either end.  The two files change only in a press that writes them; a
\* write that completes leaves such a credential in the file, and a write
\* that fails leaves the file as it was or empty, with no credential in it.
C18_WrittenCredentials ==
    [][ /\ (codex_auth' # codex_auth) => last'.op = "write_codex" /\ Writes(trace', CODEX_AUTH)
        /\ (last'.op = "write_codex" /\ Writes(trace', CODEX_AUTH)) =>
             IF last'.exit = "success"
             THEN /\ codex_auth'.exists
                  /\ CleanCredential(InFile(codex_auth'.text, OPENAI_API_KEY))
                  /\ InFile(codex_auth'.text, OPENAI_API_KEY).s # <<"s", "k", "-">>
             ELSE /\ last'.exit \in WriteErrors
                  /\ codex_auth' = codex_auth \/ codex_auth'.text = << >>
        /\ (claude_config' # claude_config) =>
             last'.op = "write_claude" /\ Writes(trace', CLAUDE_CONFIG)
        /\ (last'.op = "write_claude" /\ Writes(trace', CLAUDE_CONFIG)) =>
             IF last'.exit = "success"
             THEN /\ claude_config'.exists
                  /\ CleanCredential(EnvInFile(claude_config'.text, ANTHROPIC_AUTH_TOKEN))
             ELSE /\ last'.exit \in WriteErrors
                  /\ claude_config' = claude_config \/ claude_config'.text = << >> ]_vars

C18_Witness ==
    /\ last = Done("write_codex", "success")
    /\ codex_api_key_var = KEY_VALID_PADDED
    /\ InFile(codex_auth.text, OPENAI_API_KEY) = JStr(<<"s", "k", "-", "a">>)
====
